---------------------------- MODULE Spec2Model ----------------------------
(***************************************************************************)
(* A model of notion-db-sync.py: one run of main() copies the eligible     *)
(* pages of the master database to the slave database and marks each       *)
(* master page Synced or Failed.  The Notion client is the collaborator:   *)
(* each of its calls either returns or raises.                             *)
(*                                                                         *)
(* Python values are tagged records (k is the Python type); a Python       *)
(* string is the sequence of its characters, so that "" is <<>>, joining   *)
(* is \o and iterating a string yields its characters.  A Python dict is a *)
(* record/function whose DOMAIN is its key set.                            *)
(***************************************************************************)
EXTENDS Integers, Sequences, FiniteSets, TLC

(***************************************************************************)
(* Python values                                                           *)
(***************************************************************************)
NoneV == [k |-> "None"]
StrV(s) == [k |-> "str", s |-> s]
NumV(n) == [k |-> "num", n |-> n]
BoolV(b) == [k |-> "bool", b |-> b]
ListV(l) == [k |-> "list", l |-> l]
\* An exception raised instead of a value being returned.
RaiseV(e) == [k |-> "raise", e |-> e]

IsRaise(v) == "k" \in DOMAIN v /\ v.k = "raise"

\* Python truthiness ("if value").
Truthy(v) ==
    CASE v.k = "None" -> FALSE
      [] v.k = "str"  -> v.s # <<>>
      [] v.k = "num"  -> v.n # 0
      [] v.k = "bool" -> v.b
      [] v.k = "list" -> v.l # <<>>

Digit(d) == <<"0", "1", "2", "3", "4", "5", "6", "7", "8", "9">>[d + 1]

RECURSIVE DecimalOf(_)
DecimalOf(n) == IF n < 10 THEN <<Digit(n)>> ELSE DecimalOf(n \div 10) \o <<Digit(n % 10)>>

RECURSIVE ReprItems(_)
\* The inside of repr() of a list of strings: 'a', 'b'
ReprItems(l) ==
    IF l = <<>> THEN <<>>
    ELSE <<"'">> \o Head(l) \o <<"'">>
         \o (IF Len(l) > 1 THEN <<",", " ">> ELSE <<>>) \o ReprItems(Tail(l))

\* Python str(value), as a string.
PyStr(v) ==
    CASE v.k = "None" -> <<"N", "o", "n", "e">>
      [] v.k = "str"  -> v.s
      [] v.k = "num"  -> IF v.n < 0 THEN <<"-">> \o DecimalOf(-v.n) ELSE DecimalOf(v.n)
      [] v.k = "bool" -> IF v.b THEN <<"T", "r", "u", "e">> ELSE <<"F", "a", "l", "s", "e">>
      [] v.k = "list" -> <<"[">> \o ReprItems(v.l) \o <<"]">>

\* dict.get(key, default)
Get(d, key, default) == IF key \in DOMAIN d THEN d[key] ELSE default

\* d with d[key] = val (a Python dict assignment).
Put(d, key, val) == [x \in DOMAIN d \cup {key} |-> IF x = key THEN val ELSE d[x]]

EmptyDict == [x \in {} |-> NoneV]

(***************************************************************************)
(* extract_property_value                                                  *)
(***************************************************************************)
RECURSIVE JoinContent(_)
\* "".join(item["text"]["content"] for item in items); KeyError on an item
\* that has no "text" key (a mention or an equation).
JoinContent(items) ==
    IF items = <<>> THEN StrV(<<>>)
    ELSE IF "text" \notin DOMAIN Head(items) THEN RaiseV("KeyError")
    ELSE LET rest == JoinContent(Tail(items))
         IN  IF IsRaise(rest) THEN rest
             ELSE StrV(Head(items).text.content \o rest.s)

RECURSIVE Names(_)
\* [item["name"] for item in items]
Names(items) == IF items = <<>> THEN <<>> ELSE <<Head(items).name>> \o Names(Tail(items))

\* date_data.get("start") if date_data else None
StartOf(date_data) == IF date_data = NoneV THEN NoneV ELSE Get(date_data, "start", NoneV)

\* ExtractFormula with a fault: the number is looked for before the string.
ExtractFormula_NumberFirst(formula_data) ==
    IF "number" \in DOMAIN formula_data THEN formula_data["number"]
    ELSE IF "string" \in DOMAIN formula_data THEN formula_data["string"]
    ELSE IF "boolean" \in DOMAIN formula_data THEN formula_data["boolean"]
    ELSE IF "date" \in DOMAIN formula_data THEN StartOf(formula_data["date"])
    ELSE NoneV

ExtractFormula(formula_data) ==
    IF "string" \in DOMAIN formula_data THEN formula_data["string"]
    ELSE IF "number" \in DOMAIN formula_data THEN formula_data["number"]
    ELSE IF "boolean" \in DOMAIN formula_data THEN formula_data["boolean"]
    ELSE IF "date" \in DOMAIN formula_data THEN StartOf(formula_data["date"])
    ELSE NoneV

extract_property_value(page, property_name) ==
    IF property_name \notin DOMAIN page.properties THEN NoneV
    ELSE LET prop == page.properties[property_name]
             prop_type == prop.type
         IN  CASE prop_type = "title" ->
                      LET title_items == Get(prop, "title", <<>>)
                      IN  IF title_items = <<>> THEN StrV(<<>>) ELSE JoinContent(title_items)
               [] prop_type = "rich_text" ->
                      LET rich_text_items == Get(prop, "rich_text", <<>>)
                      IN  IF rich_text_items = <<>> THEN StrV(<<>>)
                          ELSE JoinContent(rich_text_items)
               [] prop_type = "number" -> Get(prop, "number", NoneV)
               [] prop_type = "select" ->
                      LET select_data == Get(prop, "select", NoneV)
                      IN  IF select_data = NoneV THEN NoneV
                          ELSE Get(select_data, "name", NoneV)
               [] prop_type = "multi_select" -> ListV(Names(Get(prop, "multi_select", <<>>)))
               [] prop_type = "date" -> StartOf(Get(prop, "date", NoneV))
               [] prop_type = "url" -> Get(prop, "url", NoneV)
               [] prop_type = "email" -> Get(prop, "email", NoneV)
               [] prop_type = "phone_number" -> Get(prop, "phone_number", NoneV)
               [] prop_type = "checkbox" -> Get(prop, "checkbox", NoneV)
               [] prop_type = "formula" -> ExtractFormula(Get(prop, "formula", EmptyDict))
               [] OTHER -> NoneV

(***************************************************************************)
(* create_property_object                                                  *)
(***************************************************************************)
TextSegment(content) == [type |-> "text", text |-> [content |-> content]]

RECURSIVE NameItems(_)
\* [{"name": item} for item in items]
NameItems(items) ==
    IF items = <<>> THEN <<>> ELSE <<[name |-> Head(items)]>> \o NameItems(Tail(items))

\* The items that "for item in value" yields: the characters of a string,
\* the elements of a list.
IterItems(value) ==
    IF value.k = "str" THEN [i \in 1..Len(value.s) |-> <<value.s[i]>>] ELSE value.l

\* create_property_object with a fault: the number is tested for truth, so
\* that 0 is encoded as None.
create_property_object_ZeroIsNone(property_name, value, property_type) ==
    CASE property_type = "title" ->
             [title |-> <<TextSegment(IF Truthy(value) THEN PyStr(value) ELSE <<>>)>>]
      [] property_type = "rich_text" ->
             [rich_text |-> <<TextSegment(IF Truthy(value) THEN PyStr(value) ELSE <<>>)>>]
      [] property_type = "number" -> [number |-> IF Truthy(value) THEN value ELSE NoneV]
      [] property_type = "select" ->
             IF Truthy(value) THEN [select |-> [name |-> value]] ELSE [select |-> NoneV]
      [] property_type = "multi_select" ->
             IF Truthy(value)
             THEN IF value.k \in {"str", "list"}
                  THEN [multi_select |-> NameItems(IterItems(value))]
                  ELSE RaiseV("TypeError")
             ELSE [multi_select |-> <<>>]
      [] property_type = "date" ->
             IF Truthy(value) THEN [date |-> [start |-> value]] ELSE [date |-> NoneV]
      [] property_type = "url" -> [url |-> IF Truthy(value) THEN value ELSE NoneV]
      [] property_type = "checkbox" -> [checkbox |-> IF value # NoneV THEN value ELSE BoolV(FALSE)]
      [] OTHER -> NoneV

create_property_object(property_name, value, property_type) ==
    CASE property_type = "title" ->
             [title |-> <<TextSegment(IF Truthy(value) THEN PyStr(value) ELSE <<>>)>>]
      [] property_type = "rich_text" ->
             [rich_text |-> <<TextSegment(IF Truthy(value) THEN PyStr(value) ELSE <<>>)>>]
      [] property_type = "number" -> [number |-> value]
      [] property_type = "select" ->
             IF Truthy(value) THEN [select |-> [name |-> value]] ELSE [select |-> NoneV]
      [] property_type = "multi_select" ->
             IF Truthy(value)
             THEN IF value.k \in {"str", "list"}
                  THEN [multi_select |-> NameItems(IterItems(value))]
                  ELSE RaiseV("TypeError")
             ELSE [multi_select |-> <<>>]
      [] property_type = "date" ->
             IF Truthy(value) THEN [date |-> [start |-> value]] ELSE [date |-> NoneV]
      [] property_type = "url" -> [url |-> IF Truthy(value) THEN value ELSE NoneV]
      [] property_type = "checkbox" -> [checkbox |-> IF value # NoneV THEN value ELSE BoolV(FALSE)]
      [] OTHER -> NoneV


(***************************************************************************)
(* sync_page                                                               *)
(***************************************************************************)
properties_to_sync ==
    <<"Name", "Impressions", "Likes", "Bookmarks", "Retweets", "Comments", "CTR",
      "URL", "Author", "Handle", "Date", "Retention", "Engagement Rate", "Niche">>

RequiredFieldSet == {properties_to_sync[n] : n \in 1..Len(properties_to_sync)}

\* value is None or value == "" or (isinstance(value, list) and len(value) == 0)
IsMissingValue(value) ==
    \/ value = NoneV
    \/ value = StrV(<<>>)
    \/ (value.k = "list" /\ value.l = <<>>)

\* EncodeField with a fault: a field whose type create_property_object does not
\* handle is left out instead of being stored as None.
EncodeField_DropsNone(prop_name, value, property_types) ==
    IF prop_name \in DOMAIN property_types
    THEN LET obj == create_property_object(prop_name, value, property_types[prop_name])
         IN  [put |-> obj # NoneV, obj |-> obj]
    ELSE [put |-> FALSE, obj |-> NoneV]

\* EncodeField with a fault: a type create_property_object does not handle
\* is an error.
EncodeField_RejectsNone(prop_name, value, property_types) ==
    IF prop_name \in DOMAIN property_types
    THEN LET obj == create_property_object(prop_name, value, property_types[prop_name])
         IN  [put |-> TRUE, obj |-> IF obj = NoneV THEN RaiseV("ValueError") ELSE obj]
    ELSE [put |-> FALSE, obj |-> NoneV]

\* EncodeField with a fault: Name is encoded as a title whatever type the
\* schema declares for it.
EncodeField_NameAlwaysTitle(prop_name, value, property_types) ==
    IF prop_name = "Name" /\ "Name" \in DOMAIN property_types
    THEN [put |-> TRUE, obj |-> create_property_object("Name", value, "title")]
    ELSE IF prop_name \in DOMAIN property_types
    THEN [put |-> TRUE,
          obj |-> create_property_object(prop_name, value, property_types[prop_name])]
    ELSE [put |-> FALSE, obj |-> NoneV]

\* The property object the loop stores for one field with valid data, or
\* "skip" when the field name is not in property_types.
EncodeField(prop_name, value, property_types) ==
    IF prop_name = "Name" /\ "Name" \in DOMAIN property_types
       /\ property_types["Name"] = "title"
    THEN [put |-> TRUE, obj |-> create_property_object("Name", value, "title")]
    ELSE IF prop_name \in DOMAIN property_types
    THEN [put |-> TRUE,
          obj |-> create_property_object(prop_name, value, property_types[prop_name])]
    ELSE [put |-> FALSE, obj |-> NoneV]

RECURSIVE SyncLoop(_, _, _, _, _)
\* The for loop of sync_page from its n-th property on: the two collections
\* when it completes, or the exception that left it.
SyncLoop(master_page, property_types, n, new_properties, missing_properties) ==
    IF n > Len(properties_to_sync)
    THEN [exc |-> "none", new_properties |-> new_properties,
          missing_properties |-> missing_properties]
    ELSE LET prop_name == properties_to_sync[n]
         IN  IF prop_name \notin DOMAIN master_page.properties
             THEN SyncLoop(master_page, property_types, n + 1, new_properties,
                           Append(missing_properties, prop_name))
             ELSE LET value == extract_property_value(master_page, prop_name)
                  IN  IF IsRaise(value)
                      THEN [exc |-> value.e, new_properties |-> new_properties,
                            missing_properties |-> missing_properties]
                      ELSE IF IsMissingValue(value)
                      THEN SyncLoop(master_page, property_types, n + 1, new_properties,
                                    Append(missing_properties, prop_name))
                      ELSE LET enc == EncodeField(prop_name, value, property_types)
                           IN  IF enc.put /\ IsRaise(enc.obj)
                               THEN [exc |-> enc.obj.e, new_properties |-> new_properties,
                                     missing_properties |-> missing_properties]
                               ELSE SyncLoop(master_page, property_types, n + 1,
                                             IF enc.put
                                             THEN Put(new_properties, prop_name, enc.obj)
                                             ELSE new_properties,
                                             missing_properties)

\* sync_page up to its call of notion.pages.create: the exception it raises
\* (exc, with the missing properties a ValueError names), or exc = "none" and
\* the properties it is about to submit.
sync_page(master_page, property_types) ==
    LET r == SyncLoop(master_page, property_types, 1, EmptyDict, <<>>)
    IN  IF r.exc # "none" THEN [exc |-> r.exc, missing |-> <<>>, properties |-> EmptyDict]
        ELSE IF r.missing_properties # <<>>
        THEN [exc |-> "ValueError", missing |-> r.missing_properties,
              properties |-> EmptyDict]
        ELSE [exc |-> "none", missing |-> <<>>, properties |-> r.new_properties]

(***************************************************************************)
(* Inputs: master pages and slave schemas                                  *)
(***************************************************************************)
Text(chars) == <<[type |-> "text", text |-> [content |-> chars]]>>

\* A master page with data in every synced property.
FullProps ==
    [name \in RequiredFieldSet |->
        CASE name = "Name" -> [type |-> "title", title |-> Text(<<"p">>)]
          [] name \in {"Impressions", "Likes", "Bookmarks", "Retweets", "Comments"} ->
                 [type |-> "number", number |-> NumV(12)]
          [] name = "CTR" -> [type |-> "number", number |-> NumV(0)]
          [] name = "URL" -> [type |-> "url", url |-> StrV(<<"u">>)]
          [] name = "Author" -> [type |-> "rich_text", rich_text |-> Text(<<"a">>)]
          [] name = "Handle" -> [type |-> "rich_text", rich_text |-> Text(<<"h">>)]
          [] name = "Date" -> [type |-> "date", date |-> [start |-> StrV(<<"d">>)]]
          [] name = "Retention" -> [type |-> "checkbox", checkbox |-> BoolV(TRUE)]
          [] name = "Engagement Rate" ->
                 [type |-> "formula", formula |-> [number |-> NumV(3)]]
          [] name = "Niche" ->
                 [type |-> "multi_select", multi_select |-> <<[name |-> <<"n">>]>>]]

Without(props, names) == [x \in DOMAIN props \ names |-> props[x]]

\* The schema of a slave database that mirrors FullProps.
FullTypes ==
    [name \in RequiredFieldSet |->
        IF FullProps[name].type = "formula" THEN "number" ELSE FullProps[name].type]

BlankName == [FullProps EXCEPT !["Name"] = [type |-> "title", title |-> <<>>]]

\* The master pages tried, by name (the state keeps the name): complete; a
\* property absent, empty or null; two of them; a rich text that holds a
\* mention.
PageShape ==
    [full |-> FullProps,
     no_niche |-> Without(FullProps, {"Niche"}),
     empty_niche |->
         [FullProps EXCEPT !["Niche"] = [type |-> "multi_select", multi_select |-> <<>>]],
     blank_name |-> BlankName,
     null_url |-> [FullProps EXCEPT !["URL"] = [type |-> "url", url |-> NoneV]],
     blank_name_no_niche |-> Without(BlankName, {"Niche"}),
     mention |->
         [FullProps EXCEPT !["Author"] =
             [type |-> "rich_text",
              rich_text |-> <<[type |-> "mention", mention |-> [type |-> "user"]]>>]]]

\* The slave schemas tried, by name: the mirror of the master's; Name not a
\* title; a type that cannot encode the master's value; a type
\* create_property_object does not handle; a name the slave does not have.
\* "unset" is main's slave_property_types before it is fetched.
SchemaTypes ==
    [mirror |-> FullTypes,
     name_rich_text |-> [FullTypes EXCEPT !["Name"] = "rich_text"],
     impressions_multi_select |-> [FullTypes EXCEPT !["Impressions"] = "multi_select"],
     niche_email |-> [FullTypes EXCEPT !["Niche"] = "email"],
     no_url |-> Without(FullTypes, {"URL"}),
     unset |-> EmptyDict]

\* The page dict the collaborator returns for a page of the master database.
PageDict(p) == [id |-> p.id, properties |-> PageShape[p.shape]]

(***************************************************************************)
(* Bounds                                                                  *)
(***************************************************************************)
\* Pages in the master database.
NumPages == 2
\* Runs of main() in a row.
MaxRuns == 2
\* Calls of databases.query in one run.
MaxQueries == 2
\* The largest --limit tried; the smallest is -1.
MaxLimit == 2

Ids == 1..NumPages
Limits == {NoneV} \cup {NumV(n) : n \in -1..MaxLimit}

(***************************************************************************)
(* State                                                                   *)
(***************************************************************************)
VARIABLES
    master_db,              \* the master database: id -> its page
    slave_types,            \* the slave database's schema: name -> type
    slave_pages,            \* the pages created in the slave database
    environ,                \* os.environ after load_dotenv()
    limit,                  \* args.limit
    pc,                     \* where main() is
    slave_property_types,   \* main's local
    query,                  \* get_master_pages' local
    response,               \* get_master_pages' local
    pages_to_sync,          \* get_master_pages' pages, then main's local
    i,                      \* the loop index of main (0 before the loop)
    exc,                    \* the exception a handler of main caught
    log,                    \* the collaborator calls of this run, in order
    stdout,                 \* the failure lines this run printed
    run,                    \* the number of this run
    eligible0,              \* the ids of the pages eligible when this run began
    prev,                   \* how the previous run ended
    fetched,                \* the responses databases.query gave this run, in order
    probe                   \* a pure function applied by itself, and its result

vars == <<master_db, slave_types, slave_pages, environ, limit, pc,
          slave_property_types, query, response, pages_to_sync, i, exc, log,
          stdout, run, eligible0, prev, fetched, probe>>

NotSynced == "Not Synced"
Synced == "Synced"
Failed == "Failed"
Terminal == {Synced, Failed}

\* A page is eligible: Sync Status is Not Synced and Sync? is True.
IsEligible(page) == page.status = NotSynced /\ page.sync = "True"
EligibleIds(db) == {id \in DOMAIN db : IsEligible(db[id])}

NoException == [type |-> "none", missing |-> <<>>]
NoPrev == [ended |-> "none", in_flight |-> 0, selected_terminal |-> FALSE]
\* No function is applied by itself: main is running.
NoProbe == [step |-> "none"]

\* A collaborator call as the log keeps it: the operation, the master page
\* it is for (0: none), whether it returned, and its argument (of a query,
\* all but the filter).
Call(op, id, ok, arg) == [op |-> op, id |-> id, ok |-> ok, arg |-> arg]

LoopPcs == {"sync", "update_synced", "except_ValueError", "except_Exception"}
EndPcs == {"exit1", "crashed", "done", "killed"}

(***************************************************************************)
(* load_environment                                                        *)
(***************************************************************************)
required_vars == <<"NOTION_API_KEY", "MASTER_DB_ID", "SLAVE_DB_ID">>

\* os.getenv(var) is falsy: unset, or set to "".
missing_vars(env) ==
    SelectSeq(required_vars, LAMBDA var : Get(env, var, <<>>) = <<>>)

\* The environments tried: complete, one variable unset, one variable empty.
Environments ==
    LET full == [var \in {required_vars[n] : n \in 1..3} |-> <<"x">>]
    IN  {full}
        \cup {Without(full, {required_vars[n]}) : n \in 1..3}
        \cup {[full EXCEPT ![required_vars[n]] = <<>>] : n \in 1..3}

(***************************************************************************)
(* get_master_pages and the collaborator's databases.query                 *)
(***************************************************************************)
MaxPageSize == 100

Min(a, b) == IF a < b THEN a ELSE b
Max(a, b) == IF a > b THEN a ELSE b

\* pages[:n]
Slice(pages, n) ==
    IF n >= 0 THEN SubSeq(pages, 1, Min(n, Len(pages)))
    ELSE SubSeq(pages, 1, Max(Len(pages) + n, 0))

\* EligibleFilter with a fault: the Sync Status condition is forgotten.
EligibleFilter_SyncOnly ==
    [and |-> <<[property |-> "Sync?", select |-> [equals |-> "True"]]>>]

EligibleFilter ==
    [and |-> <<[property |-> "Sync Status", select |-> [equals |-> NotSynced]],
               [property |-> "Sync?", select |-> [equals |-> "True"]]>>]

\* The query of the first call.
FirstQuery(lim) ==
    IF lim # NoneV
    THEN [filter |-> EligibleFilter, page_size |-> Min(lim.n, MaxPageSize)]
    ELSE [filter |-> EligibleFilter]

\* MorePages with a fault: the limit is not looked at.
MorePages_IgnoresLimit(resp, pages, lim) == Get(resp, "has_more", FALSE)

\* while response.get("has_more", False) and (limit is None or len(pages) < limit)
MorePages(resp, pages, lim) ==
    /\ Get(resp, "has_more", FALSE)
    /\ (lim = NoneV \/ Len(pages) < lim.n)

\* The collaborator: the name of a select property of a master page.
SelectName(page, property) ==
    CASE property = "Sync Status" -> page.status
      [] property = "Sync?" -> page.sync
      [] OTHER -> ""

\* The collaborator: the page passes every condition of the filter.
Matches(page, filter) ==
    \A n \in 1..Len(filter.and) :
        SelectName(page, filter.and[n].property) = filter.and[n].select.equals

RECURSIVE MatchingFrom(_, _, _)
\* The collaborator: the pages of the database from id on that pass, by id.
MatchingFrom(db, filter, id) ==
    IF id > NumPages THEN <<>>
    ELSE (IF Matches(db[id], filter)
          THEN <<[id |-> id, shape |-> db[id].shape]>> ELSE <<>>)
         \o MatchingFrom(db, filter, id + 1)

\* The collaborator: the responses databases.query may give: the matching
\* pages from the cursor on, cut into a page of any length (page_size does
\* not bind it), with has_more telling whether pages are left.  The last
\* call the model allows returns all that is left.
Responses(db, q, calls) ==
    LET matching == MatchingFrom(db, q.filter, 1)
        cursor == Get(q, "start_cursor", NoneV)
        start == IF cursor = NoneV THEN 1 ELSE cursor.n
        left == Len(matching) - start + 1
    IN  {[results |-> SubSeq(matching, start, start + len - 1),
          has_more |-> len < left,
          next_cursor |-> IF len < left THEN NumV(start + len) ELSE NoneV] :
            len \in IF calls + 1 < MaxQueries THEN 0..left ELSE {left}}

Queries(calls) == Len(SelectSeq(calls, LAMBDA c : c.op = "query"))

(***************************************************************************)
(* main                                                                    *)
(***************************************************************************)
NoQuery == EmptyDict
NoResponse == EmptyDict

\* get_master_pages returns pages: main's "if not pages_to_sync: return",
\* else the loop starts at the first page.
ReturnPages(pages) ==
    /\ pages_to_sync' = pages
    /\ query' = NoQuery
    /\ response' = NoResponse
    /\ IF pages = <<>> THEN pc' = "done" /\ i' = 0 ELSE pc' = "sync" /\ i' = 1

\* The loop of main goes on to the next page, or main ends.
NextPage ==
    /\ exc' = NoException
    /\ IF i < Len(pages_to_sync) THEN pc' = "sync" /\ i' = i + 1
       ELSE pc' = "done" /\ i' = i

\* An exception leaves main: the process ends with a traceback.
Crash == pc' = "crashed"

\* Start with a fault: load_environment reports the missing variables and does
\* not exit.
Start_NoExit ==
    /\ pc = "start"
    /\ \E lim \in Limits, env \in Environments :
          /\ limit' = lim
          /\ environ' = env
          /\ pc' = "map_types"
    /\ UNCHANGED <<master_db, slave_types, slave_pages, slave_property_types, query,
                   response, pages_to_sync, i, exc, log, stdout, run, eligible0, prev,
                   fetched, probe>>

\* main up to the end of load_environment: the arguments are parsed, and
\* the process exits with status 1 when a required variable is missing.
Start ==
    /\ pc = "start"
    /\ \E lim \in Limits, env \in Environments :
          /\ limit' = lim
          /\ environ' = env
          /\ pc' = IF missing_vars(env) # <<>> THEN "exit1" ELSE "map_types"
    /\ UNCHANGED <<master_db, slave_types, slave_pages, slave_property_types, query,
                   response, pages_to_sync, i, exc, log, stdout, run, eligible0, prev,
                   fetched, probe>>

\* map_property_types: databases.retrieve returns the schema, or raises.
MapPropertyTypes ==
    /\ pc = "map_types"
    /\ \E ok \in BOOLEAN :
          /\ log' = Append(log, Call("retrieve", 0, ok, "slave"))
          /\ IF ok
             THEN /\ slave_property_types' = slave_types
                  /\ pc' = "query"
             ELSE /\ Crash
                  /\ UNCHANGED slave_property_types
    /\ UNCHANGED <<master_db, slave_types, slave_pages, environ, limit, query,
                   response, pages_to_sync, i, exc, stdout, run, eligible0, prev,
                   fetched, probe>>

\* get_master_pages up to the end of its first databases.query.
QueryFirst ==
    /\ pc = "query"
    /\ LET q == FirstQuery(limit)
       IN  \/ /\ log' = Append(log, Call("query", 0, FALSE, Without(q, {"filter"})))
              /\ Crash
              /\ UNCHANGED <<query, response, pages_to_sync, i, fetched>>
           \/ \E resp \in Responses(master_db, q, Queries(log)) :
                 /\ log' = Append(log, Call("query", 0, TRUE, Without(q, {"filter"})))
                 /\ fetched' = Append(fetched, resp)
                 /\ LET pages == Get(resp, "results", <<>>)
                    IN  IF MorePages(resp, pages, limit)
                        THEN /\ query' = q
                             /\ response' = resp
                             /\ pages_to_sync' = pages
                             /\ pc' = "paginate"
                             /\ UNCHANGED i
                        ELSE ReturnPages(pages)
    /\ UNCHANGED <<master_db, slave_types, slave_pages, environ, limit,
                   slave_property_types, exc, stdout, run, eligible0, prev, probe>>

\* One turn of the while loop of get_master_pages.
QueryNext ==
    /\ pc = "paginate"
    /\ LET q == Put(query, "start_cursor", Get(response, "next_cursor", NoneV))
       IN  \/ /\ log' = Append(log, Call("query", 0, FALSE, Without(q, {"filter"})))
              /\ Crash
              /\ UNCHANGED <<query, response, pages_to_sync, i, fetched>>
           \/ \E resp \in Responses(master_db, q, Queries(log)) :
                 /\ log' = Append(log, Call("query", 0, TRUE, Without(q, {"filter"})))
                 /\ fetched' = Append(fetched, resp)
                 /\ LET pages == pages_to_sync \o Get(resp, "results", <<>>)
                    IN  IF limit # NoneV /\ Len(pages) >= limit.n
                        THEN ReturnPages(Slice(pages, limit.n))
                        ELSE IF MorePages(resp, pages, limit)
                        THEN /\ query' = q
                             /\ response' = resp
                             /\ pages_to_sync' = pages
                             /\ UNCHANGED <<pc, i>>
                        ELSE ReturnPages(pages)
    /\ UNCHANGED <<master_db, slave_types, slave_pages, environ, limit,
                   slave_property_types, exc, stdout, run, eligible0, prev, probe>>

\* The handler an exception of the try block reaches.
HandlerOf(type) == IF type = "ValueError" THEN "except_ValueError" ELSE "except_Exception"

\* The try block of main up to the end of sync_page, for page i.
SyncPage ==
    /\ pc = "sync"
    /\ LET page == PageDict(pages_to_sync[i])
           page_name == extract_property_value(page, "Name")
           r == sync_page(page, SchemaTypes[slave_property_types])
       IN  IF IsRaise(page_name)
           THEN /\ exc' = [type |-> page_name.e, missing |-> <<>>]
                /\ pc' = "except_Exception"
                /\ UNCHANGED <<log, slave_pages>>
           ELSE IF r.exc # "none"
           THEN /\ exc' = [type |-> r.exc, missing |-> r.missing]
                /\ pc' = HandlerOf(r.exc)
                /\ UNCHANGED <<log, slave_pages>>
           ELSE \E ok \in BOOLEAN :
                   /\ log' = Append(log, Call("create", page.id, ok, r.properties))
                   /\ IF ok
                      THEN /\ slave_pages' = Append(slave_pages,
                                  [from |-> page.id, run |-> run])
                           /\ pc' = "update_synced"
                           /\ UNCHANGED exc
                      ELSE /\ exc' = [type |-> "APIResponseError", missing |-> <<>>]
                           /\ pc' = "except_Exception"
                           /\ UNCHANGED slave_pages
    /\ UNCHANGED <<master_db, slave_types, environ, limit, slave_property_types,
                   query, response, pages_to_sync, i, stdout, run, eligible0, prev,
                   fetched, probe>>

\* update_sync_status with a fault: the status is set on every page of the
\* master database.
update_sync_status_EveryPage(page_id, status, ok) ==
    /\ log' = Append(log, Call("update", page_id, ok, status))
    /\ master_db' = IF ok THEN [id \in Ids |-> [master_db[id] EXCEPT !.status = status]]
                    ELSE master_db

\* update_sync_status: pages.update sets the page's Sync Status, or raises.
update_sync_status(page_id, status, ok) ==
    /\ log' = Append(log, Call("update", page_id, ok, status))
    /\ master_db' = IF ok THEN [master_db EXCEPT ![page_id].status = status]
                    ELSE master_db

\* UpdateSynced with a fault: the page is not marked after sync_page.
UpdateSynced_NoUpdate ==
    /\ pc = "update_synced"
    /\ NextPage
    /\ UNCHANGED <<master_db, log, slave_types, slave_pages, environ, limit,
                   slave_property_types, query, response, pages_to_sync, stdout, run,
                   eligible0, prev,
                   fetched, probe>>

\* The try block of main after sync_page: the page is marked Synced.
UpdateSynced ==
    /\ pc = "update_synced"
    /\ \E ok \in BOOLEAN :
          /\ update_sync_status(pages_to_sync[i].id, Synced, ok)
          /\ IF ok THEN NextPage
             ELSE /\ exc' = [type |-> "APIResponseError", missing |-> <<>>]
                  /\ pc' = "except_Exception"
                  /\ UNCHANGED i
    /\ UNCHANGED <<slave_types, slave_pages, environ, limit, slave_property_types,
                   query, response, pages_to_sync, stdout, run, eligible0, prev,
                   fetched, probe>>

\* A handler of main: the failure is printed and the page is marked with
\* status (Failed); an exception of that update leaves main.
Handler(status) ==
    /\ stdout' = Append(stdout, [id |-> pages_to_sync[i].id, error |-> exc])
    /\ \E ok \in BOOLEAN :
          /\ update_sync_status(pages_to_sync[i].id, status, ok)
          /\ IF ok THEN NextPage
             ELSE /\ Crash
                  /\ UNCHANGED <<i, exc>>
    /\ UNCHANGED <<slave_types, slave_pages, environ, limit, slave_property_types,
                   query, response, pages_to_sync, run, eligible0, prev,
                   fetched, probe>>

\* except ValueError as e
HandleValueError == pc = "except_ValueError" /\ Handler(Failed)

\* HandleException with a fault: the handler marks the page Synced.
HandleException_MarksSynced == pc = "except_Exception" /\ Handler(Synced)

\* except Exception as e
HandleException == pc = "except_Exception" /\ Handler(Failed)

\* The process is killed inside the loop.
Kill ==
    /\ pc \in LoopPcs
    /\ pc' = "killed"
    /\ UNCHANGED <<master_db, slave_types, slave_pages, environ, limit,
                   slave_property_types, query, response, pages_to_sync, i, exc,
                   log, stdout, run, eligible0, prev,
                   fetched, probe>>

\* The program is run again after a run that ended.  prev keeps of that run:
\* how it ended; the page the loop was at when it was killed; whether it
\* selected pages and left every one of them Synced or Failed.
Rerun ==
    /\ pc \in EndPcs
    /\ run < MaxRuns
    /\ run' = run + 1
    /\ prev' = [ended |-> IF pc \in {"done", "killed"} THEN pc ELSE "failed",
                in_flight |-> IF pc = "killed" THEN pages_to_sync[i].id ELSE 0,
                selected_terminal |->
                    /\ pages_to_sync # <<>>
                    /\ \A n \in 1..Len(pages_to_sync) :
                          master_db[pages_to_sync[n].id].status \in Terminal]
    /\ eligible0' = EligibleIds(master_db)
    /\ pc' = "start"
    /\ limit' = NoneV
    /\ environ' = EmptyDict
    /\ slave_property_types' = "unset"
    /\ query' = NoQuery
    /\ response' = NoResponse
    /\ pages_to_sync' = <<>>
    /\ i' = 0
    /\ exc' = NoException
    /\ log' = <<>>
    /\ stdout' = <<>>
    /\ fetched' = <<>>
    /\ UNCHANGED <<master_db, slave_types, slave_pages, probe>>

Next ==
    \/ Start
    \/ MapPropertyTypes
    \/ QueryFirst
    \/ QueryNext
    \/ SyncPage
    \/ UpdateSynced
    \/ HandleValueError
    \/ HandleException
    \/ Kill
    \/ Rerun

(***************************************************************************)
(* Specifications                                                          *)
(***************************************************************************)
\* The master pages tried by Spec: complete, and one property absent.
PageShapes == {"full", "no_niche"}

\* The values of Sync Status and Sync? tried: an eligible page, and a page
\* that fails one condition of the filter.
Eligibility ==
    {[status |-> NotSynced, sync |-> "True"], [status |-> NotSynced, sync |-> "False"],
     [status |-> Synced, sync |-> "True"]}

InitWith(shapes, schemas) ==
    /\ master_db \in [Ids -> {[status |-> el.status, sync |-> el.sync, shape |-> sh] :
                                el \in Eligibility, sh \in shapes}]
    /\ slave_types \in schemas
    /\ slave_pages = <<>>
    /\ environ = EmptyDict
    /\ limit = NoneV
    /\ pc = "start"
    /\ slave_property_types = "unset"
    /\ query = NoQuery
    /\ response = NoResponse
    /\ pages_to_sync = <<>>
    /\ i = 0
    /\ exc = NoException
    /\ log = <<>>
    /\ stdout = <<>>
    /\ run = 1
    /\ eligible0 = EligibleIds(master_db)
    /\ prev = NoPrev
    /\ fetched = <<>>
    /\ probe = NoProbe

Init == InitWith(PageShapes, {"mirror"})

Spec == Init /\ [][Next]_vars

\* The run under the scheduling of a process: a databases.query call that
\* get_master_pages is waiting for returns or raises.
SpecLive == Init /\ [][Next]_vars /\ WF_vars(QueryFirst) /\ WF_vars(QueryNext)

\* Every page eligible, the first of any shape, under any schema.
InitFields ==
    /\ InitWith(DOMAIN PageShape, DOMAIN SchemaTypes \ {"unset"})
    /\ \A id \in Ids : IsEligible(master_db[id])
    /\ \A id \in Ids \ {1} : master_db[id].shape = "full"

SpecFields == InitFields /\ [][Next]_vars

(***************************************************************************)
(* The pure functions by themselves: create_property_object and            *)
(* extract_property_value applied to values and properties drawn from      *)
(* bounded sets, while main is not running.                                *)
(***************************************************************************)
\* The longest string, the longest list of names and the longest list of
\* text segments tried.
MaxLen == 2

Strings == UNION {[1..n -> {"a", "b"}] : n \in 0..MaxLen}
NameLists == UNION {[1..n -> {<<"a">>, <<"b">>}] : n \in 0..MaxLen}
SegmentLists ==
    UNION {[1..n -> {TextSegment(<<"a">>), TextSegment(<<"b">>)}] : n \in 0..MaxLen}

\* The type tags extract_property_value has a branch for, formula aside.
ValueTags ==
    {"title", "rich_text", "number", "select", "multi_select", "date", "url", "email",
     "phone_number", "checkbox"}

\* The type tags create_property_object has a branch for.
EncodedTags ==
    {"title", "rich_text", "number", "select", "multi_select", "date", "url", "checkbox"}

OptionalStrings == {NoneV} \cup {StrV(s) : s \in Strings \ {<<>>}}

\* The values a property of the tag can hold, as extract_property_value
\* returns them.
Representable(tag) ==
    CASE tag \in {"title", "rich_text"} -> {StrV(s) : s \in Strings}
      [] tag = "number" -> {NoneV, NumV(0), NumV(12)}
      [] tag = "multi_select" -> {ListV(l) : l \in NameLists}
      [] tag = "checkbox" -> {BoolV(TRUE), BoolV(FALSE)}
      [] OTHER -> OptionalStrings

\* The results a formula property carries: any of the four keys, the string
\* and the date possibly null.
FormulaValues(key) ==
    CASE key = "string" -> {NoneV, StrV(<<"a">>)}
      [] key = "number" -> {NumV(3)}
      [] key = "boolean" -> {BoolV(TRUE)}
      [] key = "date" -> {NoneV, [start |-> StrV(<<"d">>)]}

FormulaResults ==
    UNION {{f \in [keys -> UNION {FormulaValues(key) : key \in keys}] :
               \A key \in keys : f[key] \in FormulaValues(key)} :
             keys \in SUBSET {"string", "number", "boolean", "date"}}

\* The properties tried that hold no data or little: each tag with its key
\* absent, with an empty or unset value and with a value; a tag
\* extract_property_value does not know.
Properties ==
    {[type |-> t] : t \in ValueTags \cup {"formula", "people"}}
    \cup {[type |-> "title", title |-> l] : l \in SegmentLists}
    \cup {[type |-> "rich_text", rich_text |-> l] : l \in SegmentLists}
    \cup {[type |-> "number", number |-> v] : v \in Representable("number")}
    \cup {[type |-> "select", select |-> v] : v \in {NoneV, [name |-> StrV(<<"a">>)]}}
    \cup {[type |-> "multi_select", multi_select |-> NameItems(l)] : l \in NameLists}
    \cup {[type |-> "date", date |-> v] : v \in {NoneV, [start |-> StrV(<<"d">>)]}}
    \cup {[type |-> "url", url |-> v] : v \in {NoneV, StrV(<<"a">>)}}
    \cup {[type |-> "email", email |-> v] : v \in {NoneV, StrV(<<"a">>)}}
    \cup {[type |-> "phone_number", phone_number |-> v] : v \in {NoneV, StrV(<<"a">>)}}
    \cup {[type |-> "checkbox", checkbox |-> v] : v \in Representable("checkbox")}
    \cup {[type |-> "formula", formula |-> f] : f \in FormulaResults}

\* A page whose only property, "p", is prop.
PageWith(prop) == [id |-> 1, properties |-> [name \in {"p"} |-> prop]]

\* The encoded property read as a property of the tag: the encoding with
\* its type key; None is no property (prop["type"] raises TypeError).
ReadBack(tag, obj) ==
    IF obj = NoneV THEN RaiseV("TypeError")
    ELSE extract_property_value(PageWith(Put(obj, "type", tag)), "p")

\* main is not running.
Idle ==
    /\ master_db = [id \in Ids |-> [status |-> Synced, sync |-> "False", shape |-> "full"]]
    /\ slave_types = "mirror"
    /\ slave_pages = <<>>
    /\ environ = EmptyDict
    /\ limit = NoneV
    /\ pc = "idle"
    /\ slave_property_types = "unset"
    /\ query = NoQuery
    /\ response = NoResponse
    /\ pages_to_sync = <<>>
    /\ i = 0
    /\ exc = NoException
    /\ log = <<>>
    /\ stdout = <<>>
    /\ run = 1
    /\ eligible0 = {}
    /\ prev = NoPrev
    /\ fetched = <<>>

InitCodec ==
    /\ Idle
    /\ \/ \E tag \in ValueTags : \E value \in Representable(tag) :
             probe = [step |-> "value", tag |-> tag, value |-> value]
       \/ \E prop \in Properties, name \in {"p", "q"} :
             probe = [step |-> "property", prop |-> prop, name |-> name]

mainVars == <<master_db, slave_types, slave_pages, environ, limit, pc,
              slave_property_types, query, response, pages_to_sync, i, exc, log,
              stdout, run, eligible0, prev, fetched>>

\* create_property_object is applied to the value under the tag.
Encode ==
    /\ probe.step = "value"
    /\ probe' = [step |-> "encoded", tag |-> probe.tag, value |-> probe.value,
                 obj |-> create_property_object("p", probe.value, probe.tag)]
    /\ UNCHANGED mainVars

\* extract_property_value is applied to the property just encoded.
ExtractEncoded ==
    /\ probe.step = "encoded"
    /\ probe' = [step |-> "read", tag |-> probe.tag, value |-> probe.value,
                 obj |-> probe.obj, out |-> ReadBack(probe.tag, probe.obj)]
    /\ UNCHANGED mainVars

\* extract_property_value is applied to a page that has the property "p".
ExtractProperty ==
    /\ probe.step = "property"
    /\ probe' = [step |-> "extracted", prop |-> probe.prop, name |-> probe.name,
                 out |-> extract_property_value(PageWith(probe.prop), probe.name)]
    /\ UNCHANGED mainVars

NextCodec ==
    \/ Encode
    \/ ExtractEncoded
    \/ ExtractProperty

SpecCodec == InitCodec /\ [][NextCodec]_vars

(***************************************************************************)
(* Vocabulary of the properties                                            *)
(***************************************************************************)
Selected == 1..Len(pages_to_sync)
IdAt(n) == pages_to_sync[n].id
StatusAt(n) == master_db[IdAt(n)].status

\* get_master_pages has returned.
Returned == pc \in LoopPcs \cup {"done", "killed"} \/ (pc = "crashed" /\ i >= 1)

\* The loop's turn for the n-th selected page is over.
AttemptEnded(n) == n < i \/ (n = i /\ pc \in {"done", "crashed"})

CreateCalled(id) == \E k \in 1..Len(log) : log[k].op = "create" /\ log[k].id = id
CreateReturned(id) ==
    \E k \in 1..Len(log) : log[k].op = "create" /\ log[k].id = id /\ log[k].ok
CreateRaised(id) ==
    \E k \in 1..Len(log) : log[k].op = "create" /\ log[k].id = id /\ ~log[k].ok
UpdateRaised(id, status) ==
    \E k \in 1..Len(log) :
        log[k].op = "update" /\ log[k].id = id /\ log[k].arg = status /\ ~log[k].ok

\* No createRecord and no updateRecord call was made in this run.
NoRecordCalls == \A k \in 1..Len(log) : log[k].op \notin {"create", "update"}

\* A slave page was created from master page id in run r.
CreatedIn(id, r) ==
    \E k \in 1..Len(slave_pages) : slave_pages[k].from = id /\ slave_pages[k].run = r

\* The required names that are absent from the page or extract to None, ""
\* or an empty list.
MissingNames(page) ==
    {name \in RequiredFieldSet :
        \/ name \notin DOMAIN page.properties
        \/ IsMissingValue(extract_property_value(page, name))}

(***************************************************************************)
(* C1                                                                      *)
(***************************************************************************)
\* C1: a per-record error never aborts the run: once the loop of main has
\* started, the run ends normally and has reached every selected page,
\* whichever of createRecord, updateRecord(Synced), updateRecord(Failed)
\* raised.
C1_PerRecordErrorNeverAborts ==
    (i >= 1 /\ pc \in {"done", "crashed"}) => (pc = "done" /\ i = Len(pages_to_sync))

(***************************************************************************)
(* C2                                                                      *)
(***************************************************************************)
\* C2: once the attempt on a selected page is over, however it ended, the
\* page's Sync Status is Synced or Failed; it is never still Not Synced.
C2_TerminalAfterAttempt ==
    \A n \in Selected : AttemptEnded(n) => StatusAt(n) \in Terminal

(***************************************************************************)
(* C3                                                                      *)
(***************************************************************************)
\* C3: if createRecord raised for a selected page, the page is marked Failed
\* once its attempt is over, and the loop goes on to the page after it.
C3_CreateFailureMarksFailedAndContinues ==
    \A n \in Selected :
        (CreateRaised(IdAt(n)) /\ AttemptEnded(n))
            => /\ StatusAt(n) = Failed
               /\ (n < Len(pages_to_sync) => i > n)

(***************************************************************************)
(* C4                                                                      *)
(***************************************************************************)
\* C4: get_master_pages never returns more than limit pages, whatever pages
\* the collaborator returns.  Stated for the limits of at least 1: below 0
\* no list is that short, and at 0 the page size asked for is 0.
C4_NeverMoreThanLimit ==
    (Returned /\ limit # NoneV /\ limit.n >= 1) => Len(pages_to_sync) <= limit.n

(***************************************************************************)
(* C5                                                                      *)
(***************************************************************************)
\* C5: a selected page with a required property missing is never written (no
\* createRecord call is made for it), it is marked Failed once its attempt
\* is over, and when exactly one property is missing the failure printed
\* for it is the ValueError that names exactly that property.
C5_MissingFieldNeverWritten ==
    \A n \in Selected :
        LET missing == MissingNames(PageDict(pages_to_sync[n]))
        IN  missing # {} =>
               /\ ~CreateCalled(IdAt(n))
               /\ AttemptEnded(n) =>
                     /\ StatusAt(n) = Failed
                     /\ Cardinality(missing) = 1 =>
                           \E k \in 1..Len(stdout) :
                               /\ stdout[k].id = IdAt(n)
                               /\ stdout[k].error.type = "ValueError"
                               /\ Len(stdout[k].error.missing) = 1
                               /\ stdout[k].error.missing[1] \in missing

(***************************************************************************)
(* C6                                                                      *)
(***************************************************************************)
\* C6: every updateRecord(id, Synced) call comes after a createRecord call
\* for the same page that returned, in the same run; and a selected page
\* that is Synced is one whose createRecord returned.
C6_SyncedOnlyAfterCreate ==
    /\ \A k \in 1..Len(log) :
          (log[k].op = "update" /\ log[k].arg = Synced)
              => \E j \in 1..(k - 1) :
                    log[j].op = "create" /\ log[j].id = log[k].id /\ log[j].ok
    /\ \A n \in Selected : StatusAt(n) = Synced => CreateReturned(IdAt(n))

\* A run that ended with one page Synced and another whose createRecord
\* raised.
C6_Witness ==
    /\ pc = "done"
    /\ \E n \in Selected : StatusAt(n) = Synced
    /\ \E n \in Selected : CreateRaised(IdAt(n))

(***************************************************************************)
(* C7                                                                      *)
(***************************************************************************)
\* C7, as claimed: a run killed inside the loop leaves the pages before the
\* current one Synced or Failed and the pages after it Not Synced, and in
\* the run after it no master page gets a second slave page.
C7_NoPageCreatedInBothRuns ==
    /\ pc = "killed" =>
          \A n \in Selected : /\ n < i => StatusAt(n) \in Terminal
                              /\ n > i => StatusAt(n) = NotSynced
    /\ prev.ended = "killed" =>
          \A id \in Ids : ~(CreatedIn(id, run - 1) /\ CreatedIn(id, run))

\* C7, amended: a run killed inside the loop leaves the pages before the
\* current one Synced or Failed and the pages after it Not Synced with no
\* slave page; the run after it selects only pages that were still eligible,
\* and the only master page that can get a slave page in both runs is the
\* one the kill interrupted.
C7_OnlyInFlightPageCreatedTwice ==
    /\ pc = "killed" =>
          \A n \in Selected : /\ n < i => StatusAt(n) \in Terminal
                              /\ n > i => /\ StatusAt(n) = NotSynced
                                          /\ ~CreatedIn(IdAt(n), run)
    /\ prev.ended = "killed" =>
          /\ \A n \in Selected : IdAt(n) \in eligible0
          /\ \A id \in Ids :
                (CreatedIn(id, run - 1) /\ CreatedIn(id, run)) => id = prev.in_flight

\* The page a kill interrupted between its createRecord and its status
\* update has a slave page from both runs.
C7_Witness ==
    /\ prev.ended = "killed"
    /\ CreatedIn(prev.in_flight, run - 1)
    /\ CreatedIn(prev.in_flight, run)

(***************************************************************************)
(* C8                                                                      *)
(***************************************************************************)
\* C8, as claimed: after a run that selected pages and ended with every one
\* of them Synced or Failed, the next run selects no page and makes no
\* createRecord and no updateRecord call.
C8_SecondRunAfterSelectedTerminal ==
    (run >= 2 /\ prev.ended = "done" /\ prev.selected_terminal)
        => (pages_to_sync = <<>> /\ NoRecordCalls)

\* C8, amended: after a run that ended normally and left no page eligible
\* (every eligible page, selected or not, is Synced or Failed), the next run
\* selects no page and makes no createRecord and no updateRecord call.
C8_SecondRunAfterAllTerminal ==
    (run >= 2 /\ prev.ended = "done" /\ eligible0 = {})
        => (pages_to_sync = <<>> /\ NoRecordCalls)

\* A second run that ended with nothing to do after a first run that
\* created slave pages.
C8_Witness ==
    /\ run = 2 /\ prev.ended = "done" /\ eligible0 = {}
    /\ pc = "done"
    /\ slave_pages # <<>>

(***************************************************************************)
(* C9                                                                      *)
(***************************************************************************)
Retrieves == Len(SelectSeq(log, LAMBDA c : c.op = "retrieve"))

\* C9: a run that ends before the loop (a required variable missing, the
\* schema fetch raising, a selection query raising) has made no createRecord
\* and no updateRecord call; each of these failures ends the run there; the
\* schema is fetched once per run, before the first selection query.
C9_FatalBeforeLoopTouchesNothing ==
    /\ (pc = "exit1" \/ (pc = "crashed" /\ i = 0))
          => (NoRecordCalls /\ \A id \in Ids : ~CreatedIn(id, run))
    /\ (pc # "start" /\ missing_vars(environ) # <<>>) => (pc = "exit1" /\ log = <<>>)
    /\ \A k \in 1..Len(log) :
          (log[k].op \in {"retrieve", "query"} /\ ~log[k].ok)
              => (pc = "crashed" /\ i = 0 /\ k = Len(log))
    /\ Retrieves <= 1
    /\ \A k \in 1..Len(log) :
          log[k].op = "query" => (k > 1 /\ log[1].op = "retrieve" /\ log[1].ok)
    /\ (pc \in {"query", "paginate"} \/ Returned) => Retrieves = 1

\* A run that the second selection query ended, with pages eligible.
C9_Witness ==
    /\ pc = "crashed" /\ i = 0
    /\ Len(log) = 3 /\ log[3].op = "query" /\ ~log[3].ok
    /\ eligible0 # {}

(***************************************************************************)
(* C10                                                                     *)
(***************************************************************************)
\* C10: when the slave schema has every required name, the properties
\* passed to createRecord have exactly the required names as keys, whatever
\* types the schema declares for them.
C10_CreateKeysAreRequiredFieldSet ==
    \A k \in 1..Len(log) :
        (log[k].op = "create" /\ RequiredFieldSet \subseteq DOMAIN SchemaTypes[slave_property_types])
            => DOMAIN log[k].arg = RequiredFieldSet

\* A createRecord call under a schema that declares a type
\* create_property_object does not handle: the name is a key all the same.
C10_Witness ==
    \E k \in 1..Len(log) :
        /\ log[k].op = "create"
        /\ RequiredFieldSet \subseteq DOMAIN SchemaTypes[slave_property_types]
        /\ slave_property_types = "niche_email"
        /\ DOMAIN log[k].arg = RequiredFieldSet
        /\ log[k].arg["Niche"] = NoneV

(***************************************************************************)
(* C11                                                                     *)
(***************************************************************************)
\* C11, as claimed: for each of the ten tags title, rich_text, number,
\* select, multi_select, date, url, email, phone_number and checkbox and each
\* value a property of the tag can hold, encoding the value under the tag
\* and extracting from the encoding, read as a property of the tag, gives
\* the value back.
C11_RoundTripEveryTag == probe.step = "read" => probe.out = probe.value

\* C11, amended: the same for the eight tags create_property_object has a
\* branch for, which leaves out email and phone_number.
C11_RoundTripEncodedTags ==
    (probe.step = "read" /\ probe.tag \in EncodedTags) => probe.out = probe.value

\* A list of two names came back from its multi_select encoding.
C11_Witness ==
    /\ probe.step = "read"
    /\ probe.tag = "multi_select"
    /\ probe.value = ListV(<<<<"a">>, <<"b">>>>)
    /\ probe.obj = [multi_select |-> <<[name |-> <<"a">>], [name |-> <<"b">>]>>]
    /\ probe.out = probe.value

(***************************************************************************)
(* C12                                                                     *)
(***************************************************************************)
FormulaRank(key) ==
    CASE key = "string" -> 1 [] key = "number" -> 2 [] key = "boolean" -> 3
      [] key = "date" -> 4

\* C12: extract_property_value does not raise on absent or empty data: it
\* returns None for a name the page does not have, None for a select that
\* is unset, [] for an empty multi_select, "" for a title or rich_text with
\* no segment, and for a formula the value under the first key present of
\* string, number, boolean, date (of a date, its start).
C12_ExtractOfAbsentOrEmpty ==
    probe.step = "extracted" =>
        LET prop == probe.prop
            out == probe.out
        IN  /\ ~IsRaise(out)
            /\ (probe.name # "p") => (out = NoneV)
            /\ (probe.name = "p") =>
                  /\ (prop.type = "select" /\ Get(prop, "select", NoneV) = NoneV)
                        => (out = NoneV)
                  /\ (prop.type = "multi_select" /\ Get(prop, "multi_select", <<>>) = <<>>)
                        => (out = ListV(<<>>))
                  /\ (prop.type \in {"title", "rich_text"} /\ Get(prop, prop.type, <<>>) = <<>>)
                        => (out = StrV(<<>>))
                  /\ (prop.type = "formula" /\ Get(prop, "formula", EmptyDict) # EmptyDict)
                        => LET f == prop.formula
                               first == CHOOSE key \in DOMAIN f :
                                            \A other \in DOMAIN f :
                                                FormulaRank(key) <= FormulaRank(other)
                           IN  out = IF first # "date" THEN f[first]
                                     ELSE IF f[first] = NoneV THEN NoneV
                                     ELSE f[first].start

\* A formula that carries a string and a number gave its string.
C12_Witness ==
    /\ probe.step = "extracted"
    /\ probe.name = "p"
    /\ probe.prop.type = "formula"
    /\ "formula" \in DOMAIN probe.prop
    /\ DOMAIN probe.prop.formula = {"string", "number"}
    /\ probe.out = StrV(<<"a">>)

(***************************************************************************)
(* C13                                                                     *)
(***************************************************************************)
\* The missing names of the page, in the order of properties_to_sync.
OrderedMissing(page) ==
    SelectSeq(properties_to_sync, LAMBDA name : name \in MissingNames(page))

\* C13: whenever a failure is printed for a page that has required
\* properties missing, it is the ValueError that names all of them, in the
\* order of properties_to_sync, whatever the slave schema is.
C13_DiagnosticNamesAllMissing ==
    \A k \in 1..Len(stdout) :
        LET page == [id |-> stdout[k].id, shape |-> master_db[stdout[k].id].shape]
            missing == OrderedMissing(PageDict(page))
        IN  missing # <<>> =>
               /\ stdout[k].error.type = "ValueError"
               /\ stdout[k].error.missing = missing

(***************************************************************************)
(* C14                                                                     *)
(***************************************************************************)
\* The schema main fetched.
SchemaMap == SchemaTypes[slave_property_types]

\* The required names for which the schema declares a type that
\* create_property_object does not handle.
Unhandled ==
    {name \in RequiredFieldSet \cap DOMAIN SchemaMap : SchemaMap[name] \notin EncodedTags}

\* Under a schema that differs from the master's only by such a type, a
\* complete page gets to its createRecord call: no handler is reached
\* without it.
NoErrorForUnhandled ==
    (/\ pc \in {"except_ValueError", "except_Exception"}
     /\ slave_property_types = "niche_email"
     /\ pages_to_sync[i].shape = "full")
        => CreateCalled(IdAt(i))

\* C14, as claimed: a required field whose schema type is not handled is
\* dropped: the properties passed to createRecord have no entry for its
\* name, and no error is raised for it.
C14_UnhandledTypeDropped ==
    /\ \A k \in 1..Len(log) :
          log[k].op = "create" => \A name \in Unhandled : name \notin DOMAIN log[k].arg
    /\ NoErrorForUnhandled

\* C14, amended: a required field whose schema type is not handled is not
\* encoded: the properties passed to createRecord have an entry for its
\* name whose value is None, and no error is raised for it.
C14_UnhandledTypeWrittenAsNone ==
    /\ \A k \in 1..Len(log) :
          log[k].op = "create" =>
              \A name \in Unhandled : name \in DOMAIN log[k].arg /\ log[k].arg[name] = NoneV
    /\ NoErrorForUnhandled

\* A run that ended with a page Synced whose createRecord call carried Niche
\* as None.
C14_Witness ==
    /\ pc = "done"
    /\ Unhandled = {"Niche"}
    /\ \E k \in 1..Len(log) :
          /\ log[k].op = "create" /\ log[k].ok
          /\ log[k].arg["Niche"] = NoneV
          /\ master_db[log[k].id].status = Synced

(***************************************************************************)
(* C15                                                                     *)
(***************************************************************************)
\* The master page with the id, as the collaborator returns it.
MasterPage(id) == PageDict([id |-> id, shape |-> master_db[id].shape])

\* C15: in the properties passed to createRecord, each required name the
\* schema has is there, encoded from the value extracted from the master
\* page under the type the schema declares, Name included; each required
\* name the schema does not have is left out, and a complete page under a
\* schema without URL still gets to its createRecord call.
C15_EncodedUnderSchemaType ==
    /\ \A k \in 1..Len(log) :
          log[k].op = "create" =>
              \A name \in RequiredFieldSet :
                  IF name \in DOMAIN SchemaMap
                  THEN /\ name \in DOMAIN log[k].arg
                       /\ log[k].arg[name] =
                             create_property_object(name,
                                 extract_property_value(MasterPage(log[k].id), name),
                                 SchemaMap[name])
                  ELSE name \notin DOMAIN log[k].arg
    /\ (/\ pc \in {"except_ValueError", "except_Exception"}
        /\ slave_property_types = "no_url"
        /\ pages_to_sync[i].shape = "full")
           => CreateCalled(IdAt(i))

\* A createRecord call under a schema that declares Name as rich_text: the
\* title of the master page went out as a rich_text.
C15_Witness ==
    \E k \in 1..Len(log) :
        /\ log[k].op = "create"
        /\ slave_property_types = "name_rich_text"
        /\ MasterPage(log[k].id).properties["Name"].type = "title"
        /\ log[k].arg["Name"] = [rich_text |-> <<TextSegment(<<"p">>)>>]

(***************************************************************************)
(* C16                                                                     *)
(***************************************************************************)
\* The createRecord and updateRecord calls of this run, in order.
RecordCalls == SelectSeq(log, LAMBDA c : c.op \in {"create", "update"})

\* The place of the page in the selection.
PositionOf(id) == CHOOSE n \in Selected : IdAt(n) = id

\* The calls of the kind made for the page.
CallsFor(id, op, arg) ==
    {k \in 1..Len(RecordCalls) :
        /\ RecordCalls[k].id = id
        /\ RecordCalls[k].op = op
        /\ (op = "update" => RecordCalls[k].arg = arg)}

\* No retry, and the order of the selection: every record call is for a
\* selected page the loop has got to; the calls for a page come before the
\* calls for any later page; each page has at most one createRecord call
\* and at most one status update of each kind.
NoRetryInOrder ==
    /\ \A k \in 1..Len(RecordCalls) :
          \E n \in Selected : IdAt(n) = RecordCalls[k].id /\ n <= i
    /\ \A j, k \in 1..Len(RecordCalls) :
          j < k => PositionOf(RecordCalls[j].id) <= PositionOf(RecordCalls[k].id)
    /\ \A n \in Selected :
          /\ Cardinality(CallsFor(IdAt(n), "create", NoneV)) <= 1
          /\ Cardinality(CallsFor(IdAt(n), "update", Synced)) <= 1
          /\ Cardinality(CallsFor(IdAt(n), "update", Failed)) <= 1

\* Every page the loop has passed has had its calls.
PassedPagesAttempted ==
    \A n \in Selected :
        n < i => \E k \in 1..Len(RecordCalls) : RecordCalls[k].id = IdAt(n)

\* C16: within a run every selected page is attempted exactly once, in the
\* order of the selection: there is no retry, the calls are in the order of
\* the selection, and when the run is over (main returned, or an exception
\* left it) every selected page has had its calls.
C16_EachRecordOnceInOrder ==
    /\ NoRetryInOrder
    /\ PassedPagesAttempted
    /\ (pc \in {"done", "crashed"} /\ i >= 1)
          => \A n \in Selected :
                \E k \in 1..Len(RecordCalls) : RecordCalls[k].id = IdAt(n)

(***************************************************************************)
(* C17                                                                     *)
(***************************************************************************)
\* A step of the loop of main changes nothing that belongs to another
\* page: an updateRecord call is for the page the loop is at; of the master
\* database only the Sync Status of that page may change; the schema, the
\* one fetched and the slave database's, and the list of pages to process
\* do not change.
StepOfOneRecord ==
    pc \in LoopPcs =>
        LET current == pages_to_sync[i].id
        IN  /\ pages_to_sync' = pages_to_sync
            /\ slave_property_types' = slave_property_types
            /\ slave_types' = slave_types
            /\ \A id \in Ids \ {current} : master_db'[id] = master_db[id]
            /\ master_db'[current].sync = master_db[current].sync
            /\ master_db'[current].shape = master_db[current].shape
            /\ (Len(log') > Len(log) /\ log'[Len(log')].op = "update")
                  => (log'[Len(log')].id = current)

\* C17: processing one record changes nothing that belongs to another
\* record: every step is a StepOfOneRecord.
C17_OtherRecordsUntouched == [][StepOfOneRecord]_vars

\* The first of two selected pages is marked and the loop is at the second,
\* which is still Not Synced.
C17_Witness ==
    /\ pc = "sync"
    /\ i = 2
    /\ StatusAt(1) \in Terminal
    /\ StatusAt(2) = NotSynced

(***************************************************************************)
(* C18                                                                     *)
(***************************************************************************)
RECURSIVE ConcatResults(_)
\* The results of the responses, one after the other.
ConcatResults(responses) ==
    IF responses = <<>> THEN <<>>
    ELSE Head(responses).results \o ConcatResults(Tail(responses))

\* The number of results in the first m responses of this run.
Accumulated(m) == Len(ConcatResults(SubSeq(fetched, 1, m)))

IsPrefix(a, b) == Len(a) <= Len(b) /\ SubSeq(b, 1, Len(a)) = a

\* The databases.query calls of this run, in order.
QueryCalls == SelectSeq(log, LAMBDA c : c.op = "query")

\* A further query is made only with the cursor of the response before it,
\* after a response that reported has_more, and with a limit only while
\* fewer results than the limit are accumulated.
FetchesOnlyWhileNeeded ==
    /\ Len(QueryCalls) >= 1 => "start_cursor" \notin DOMAIN QueryCalls[1].arg
    /\ \A j \in 2..Len(QueryCalls) :
          /\ "start_cursor" \in DOMAIN QueryCalls[j].arg
          /\ QueryCalls[j].arg["start_cursor"] = fetched[j - 1].next_cursor
          /\ fetched[j - 1].has_more
          /\ limit # NoneV => Accumulated(j - 1) < limit.n

\* What get_master_pages returned: with no limit, all the results in fetch
\* order, the last response having reported has_more false; with a limit, a
\* prefix of them that has all of them when they are fewer than the limit
\* and no fewer than the limit otherwise, the fetching having stopped on
\* has_more false or on the limit.
ReturnsInFetchOrder ==
    Returned =>
        LET all == ConcatResults(fetched)
            last == fetched[Len(fetched)]
        IN  IF limit = NoneV
            THEN pages_to_sync = all /\ ~last.has_more
            ELSE /\ IsPrefix(pages_to_sync, all)
                 /\ Len(all) < limit.n => pages_to_sync = all
                 /\ (Len(all) >= limit.n /\ limit.n >= 0) => Len(pages_to_sync) >= limit.n
                 /\ ~last.has_more \/ Len(all) >= limit.n

\* C18: get_master_pages fetches only while it needs to, returns the
\* accumulated results in fetch order, and its loop ends: with the
\* collaborator reporting has_more false in the end, the while loop is left.
C18_PaginationStopsInFetchOrder ==
    /\ [](FetchesOnlyWhileNeeded /\ ReturnsInFetchOrder)
    /\ (pc = "paginate") ~> (pc # "paginate")

\* With no limit, two pages came in two responses of one result each.
C18_Witness ==
    /\ Returned
    /\ limit = NoneV
    /\ Len(fetched) = 2
    /\ Len(fetched[1].results) = 1
    /\ Len(pages_to_sync) = 2

(***************************************************************************)
(* C19                                                                     *)
(***************************************************************************)
\* C19: at the end of a run the status and the slave database agree: a
\* selected page marked Failed has no slave page created from it in this
\* run, and a selected page has one only if it is marked Synced.  Stated
\* for the runs that main returned from.
C19_StatusAgreesWithDestination ==
    pc = "done" =>
        \A n \in Selected :
            /\ StatusAt(n) = Failed => ~CreatedIn(IdAt(n), run)
            /\ CreatedIn(IdAt(n), run) => StatusAt(n) = Synced

=============================================================================
